---------------------------- MODULE Spec2Model ----------------------------
(***************************************************************************)
(* Model of src/app.py: a webhook handler (POST /tv) that sizes a market   *)
(* BUY, places it, and then places an OCO SELL exit on a spot exchange.    *)
(*                                                                         *)
(* Numbers.  Python floats are binary floating point with round to nearest *)
(* even.  Quantities are modelled as binary floats <<m, e>> (value m*2^e)  *)
(* whose mantissa has MantBits bits instead of 53.  53 and 13 are          *)
(* congruent modulo 20, the period of the binary expansions of 1/10, 1/20  *)
(* and 1/100, so these decimals round the same way as in binary64.  Prices *)
(* and money are exact rationals <<n, d>>; a decimal formatting that hits  *)
(* an exact tie may go either way in floating point, so it is a choice     *)
(* between both neighbours.                                                *)
(***************************************************************************)
EXTENDS Integers, Sequences, FiniteSets, TLC

(***************************************************************************)
(* Binary floating point                                                   *)
(***************************************************************************)
MantBits == 13

Pow2(k) == 2 ^ k

Pow10(k) == 10 ^ k

FZero == <<0, 0>>

RECURSIVE Norm(_, _, _)
\* The pair (n/d) * 2^e scaled so that 2^(MantBits-1) <= n/d < 2^MantBits.
Norm(n, d, e) ==
    IF n >= Pow2(MantBits) * d THEN Norm(n, 2 * d, e + 1)
    ELSE IF n < Pow2(MantBits - 1) * d THEN Norm(2 * n, d, e - 1)
    ELSE <<n, d, e>>

\* The float nearest to (n/d) * 2^e, ties to even.
RoundRat(n, d, e) ==
    IF n = 0 THEN FZero
    ELSE LET t == Norm(n, d, e)
             q == t[1] \div t[2]
             r == t[1] % t[2]
             up == (2 * r > t[2]) \/ (2 * r = t[2] /\ q % 2 = 1)
             m == IF up THEN q + 1 ELSE q
         IN  IF m = Pow2(MantBits) THEN <<Pow2(MantBits - 1), t[3] + 1>>
             ELSE <<m, t[3]>>

\* float("n/d") for a decimal string of value n/d
FromDec(n, d) == RoundRat(n, d, 0)

\* float(k) for an int k
FromInt(k) == RoundRat(k, 1, 0)

\* a / b and a * b on floats
FDiv(a, b) == RoundRat(a[1], b[1], a[2] - b[2])

FMul(a, b) == RoundRat(a[1] * b[1], 1, a[2] + b[2])

\* math.floor(a) for a float a >= 0
FFloor(a) ==
    IF a[2] >= 0 THEN a[1] * Pow2(a[2]) ELSE a[1] \div Pow2(-a[2])

\* a < b and a <= b on non-negative floats
FLt(a, b) ==
    IF a[1] = 0 THEN b[1] > 0
    ELSE IF b[1] = 0 THEN FALSE
    ELSE a[2] < b[2] \/ (a[2] = b[2] /\ a[1] < b[1])

FLe(a, b) == a = b \/ FLt(a, b)

(***************************************************************************)
(* Quantisation helpers (src/app.py 68-75)                                 *)
(***************************************************************************)
\* _step: floor n to the step.  The precision computed on line 70 is not
\* used by the return value on line 71.
_step(n, step) == FMul(FromInt(FFloor(FDiv(n, step))), step)

RECURSIVE RoundLog10(_, _)
\* round(math.log10(n/d)) for a rational n/d > 0
RoundLog10(n, d) ==
    IF n * n * 10 < d * d THEN RoundLog10(10 * n, d) - 1
    ELSE IF n * n >= 10 * d * d THEN RoundLog10(n, 10 * d) + 1
    ELSE 0

Max(a, b) == IF a >= b THEN a ELSE b

\* precision: the number of decimals derived from a tick (line 74)
precision(tick) ==
    IF tick[1] > 0 THEN Max(0, -RoundLog10(tick[1], tick[2])) ELSE 8

RECURSIVE GCD(_, _)
GCD(a, b) == IF b = 0 THEN a ELSE GCD(b, a % b)

\* the rational n/d in lowest terms
Reduce(x) == LET g == GCD(x[1], x[2]) IN <<x[1] \div g, x[2] \div g>>

\* f"{p:.{prec}f}": the decimals D/10^prec nearest to the rational p >= 0
FormatFixed(p, prec) ==
    LET x == Reduce(p)
        whole == x[1] \div x[2]
        frac == (x[1] % x[2]) * Pow10(prec)
        q == whole * Pow10(prec) + frac \div x[2]
        r == frac % x[2]
    IN  IF 2 * r < x[2] THEN {<<q, Pow10(prec)>>}
        ELSE IF 2 * r > x[2] THEN {<<q + 1, Pow10(prec)>>}
        ELSE {<<q, Pow10(prec)>>, <<q + 1, Pow10(prec)>>}

\* _round_to_tick: the values float(f"{p:.{precision}f}") can take
_round_to_tick(p, tick) == FormatFixed(p, precision(tick))


(***************************************************************************)
(* Exact rationals <<n, d>>, d > 0, for money and prices                   *)
(***************************************************************************)
RLt(a, b) == a[1] * b[2] < b[1] * a[2]

RLe(a, b) == a[1] * b[2] <= b[1] * a[2]

REq(a, b) == a[1] * b[2] = b[1] * a[2]

RMax(a, b) == IF RLt(a, b) THEN b ELSE a

\* float(x) of a rational x
ToFloat(x) == FromDec(x[1], x[2])

(***************************************************************************)
(* Configuration (src/app.py 7-14) and the webhook tables (188-192)        *)
(***************************************************************************)
\* an unset string
None == "None"

\* an unset number, pair or entry; a set one is <<...>> of another length
Absent == <<>>

\* an optional value that is present
Some(x) == <<x>>

TV_PASSPHRASE == "secret"

TP_PCT == 15

SL_PCT == 6

SYMBOLS == {"SOLUSD", "JUPUSD", "BONKUSD"}

map_event ==
    [e \in {"LONG_SOL", "LONG_JUP", "LONG_BONK"} |->
        CASE e = "LONG_SOL" -> "SOLUSD"
          [] e = "LONG_JUP" -> "JUPUSD"
          [] e = "LONG_BONK" -> "BONKUSD"]

bases ==
    [s \in SYMBOLS |->
        CASE s = "SOLUSD" -> "SOL"
          [] s = "JUPUSD" -> "JUP"
          [] s = "BONKUSD" -> "BONK"]

BaseAssets == {bases[s] : s \in SYMBOLS}

STABLES == {"USD", "USDT", "BUSD", "USDC"}

\* the fallback baseline of line 151, in dollars
FALLBACK_USD == 600

\* the default of body.get("notional_pct", 5.0), line 186
DEFAULT_PCT == 5

\* the default minimum notional of line 135
DEFAULT_MIN_NOTIONAL == 10

\* 0.000001 of a base asset, in millionths of a unit (line 92)
DUST == 1

(***************************************************************************)
(* What the exchange can answer                                            *)
(***************************************************************************)
Filter(t, step, tick, minNotional, notional) ==
    [filterType |-> t, stepSize |-> step, tickSize |-> tick,
     minNotional |-> minNotional, notional |-> notional]

LOT_SIZE(step) == Filter("LOT_SIZE", step, Absent, Absent, Absent)

PRICE_FILTER(tick) == Filter("PRICE_FILTER", Absent, tick, Absent, Absent)

\* The entries exchangeInfo may publish for a symbol; Absent: not published.
CatalogEntries(symbol) ==
    CASE symbol = "SOLUSD" ->
           {Absent,
            Some([symbol |-> symbol,
                  filters |-> <<PRICE_FILTER(<<1, 100>>), LOT_SIZE(<<1, 10>>),
                                Filter("MIN_NOTIONAL", Absent, Absent, <<10, 1>>, Absent)>>])}
      [] symbol = "JUPUSD" ->
           {Some([symbol |-> symbol,
                  filters |-> <<PRICE_FILTER(<<1, 4>>), LOT_SIZE(<<1, 100>>),
                                Filter("NOTIONAL", Absent, Absent, Absent, Absent)>>]),
            Some([symbol |-> symbol,
                  filters |-> <<LOT_SIZE(<<1, 1>>), PRICE_FILTER(<<1, 100>>)>>])}
      [] symbol = "BONKUSD" ->
           {Some([symbol |-> symbol,
                  filters |-> <<PRICE_FILTER(<<1, 100>>),
                                Filter("NOTIONAL", Absent, Absent, Absent, <<20, 1>>)>>]),
            Some([symbol |-> symbol,
                  filters |-> <<LOT_SIZE(<<1, 10>>)>>])}

\* the (status, body) pairs of a failed exchange call (status >= 400)
ErrResponses == {[status_code |-> 400, text |-> "rejected"],
                 [status_code |-> 503, text |-> "unavailable"]}

\* free balances of the stable assets an account fetch may report, in dollars
Accounts ==
    {[a \in STABLES |-> 0],
     [a \in STABLES |-> IF a \in {"USD", "USDC"} THEN 500 ELSE 0]}

\* ticker prices, in dollars
Prices == {<<100, 1>>}

\* what the account holds of a base asset after a filled entry, in
\* millionths of a unit
FILLED == 2

(***************************************************************************)
(* Webhook bodies                                                          *)
(***************************************************************************)
Passphrases == {"secret", "wrong"}

Events == {"LONG_SOL", "LONG_JUP", "LONG_BONK", "CLOSE_ALL"}

\* notional_pct of the body; Absent: the key is absent
NotionalPcts == {Absent, Some(5)}

(***************************************************************************)
(* Pure parts of the pipeline                                              *)
(***************************************************************************)
\* a faulty gate that looks at the first managed symbol only
has_any_position_first_only(total) ==
    total[bases["SOLUSD"]] > DUST

\* has_any_position (85-94) on the balances of the account response:
\* total[b] is free + locked of asset b
has_any_position(total) ==
    \E sym \in SYMBOLS : total[bases[sym]] > DUST

RECURSIVE ScanFilters(_, _)
\* the for loop of lines 129-137
ScanFilters(fs, acc) ==
    IF fs = <<>> THEN acc
    ELSE LET f == Head(fs)
             t == f.filterType
         IN  ScanFilters(Tail(fs),
               IF t = "LOT_SIZE" THEN [acc EXCEPT !.lot_step = f.stepSize]
               ELSE IF t \in {"MIN_NOTIONAL", "NOTIONAL"}
                 THEN [acc EXCEPT !.min_notional =
                         IF f.minNotional # Absent THEN f.minNotional
                         ELSE IF f.notional # Absent THEN f.notional
                         ELSE <<DEFAULT_MIN_NOTIONAL, 1>>]
               ELSE IF t = "PRICE_FILTER"
                 THEN [acc EXCEPT !.tick_size = f.tickSize]
               ELSE acc)

\* lines 125-137: lot_step, tick_size, min_notional of a symbol entry
ParseFilters(s) ==
    ScanFilters(s.filters,
                [lot_step |-> Absent, tick_size |-> Absent, min_notional |-> <<0, 1>>])

\* lines 145-151: the cash pool used for sizing
AvailableCash(free) ==
    LET sum == free["USD"] + free["USDT"] + free["BUSD"] + free["USDC"]
    IN  IF sum <= 0 THEN FALLBACK_USD ELSE sum

\* float(body.get("notional_pct", 5.0)), line 186
PctOf(notional_pct) ==
    IF notional_pct = Absent THEN DEFAULT_PCT ELSE notional_pct[1]

\* a faulty sizing that forgets the + 1.0 of line 153
SizingNotional_no_epsilon(min_notional, usd, notional_pct) ==
    RMax(min_notional, <<usd * notional_pct, 100>>)

\* line 153: notional = max(min_notional + 1.0, usd * (notional_pct / 100.0))
SizingNotional(min_notional, usd, notional_pct) ==
    RMax(<<min_notional[1] + min_notional[2], min_notional[2]>>,
         <<usd * notional_pct, 100>>)

\* lines 155-156: qty = _step(notional / price, lot_step)
SizingQty(notional, price, lot_step) ==
    _step(FDiv(ToFloat(notional), ToFloat(price)), ToFloat(lot_step))

\* lines 165-168: the exit prices the entry price and tick can give
ExitPrices(price, tick_size) ==
    {[tp_price |-> tp, sl_stop |-> sl, sl_limit |-> lim] :
       <<tp, sl, lim>> \in
         {x \in _round_to_tick(<<price[1] * (100 + TP_PCT), price[2] * 100>>, tick_size)
                \X _round_to_tick(<<price[1] * (100 - SL_PCT), price[2] * 100>>, tick_size)
                \X UNION {_round_to_tick(<<sl[1] * 999, sl[2] * 1000>>, tick_size) :
                            sl \in _round_to_tick(<<price[1] * (100 - SL_PCT), price[2] * 100>>,
                                                  tick_size)} :
            x[3] \in _round_to_tick(<<x[2][1] * 999, x[2][2] * 1000>>, tick_size)}}

(***************************************************************************)
(* State                                                                   *)
(***************************************************************************)
\* the webhook invocations the host runtime may have in flight at once
Invs == {1, 2}

VARIABLES
    MAX_POSITIONS,   \* the configured maximum (line 11)
    EXINFO_CACHE,    \* symbol -> cached exchangeInfo entry, Absent: not cached
    bal,             \* exchange account: base asset -> free + locked
    inv,             \* invocation -> program counter and locals of the handler
    num              \* last application of a pure function (SpecNum)

vars == <<MAX_POSITIONS, EXINFO_CACHE, bal, inv, num>>

\* the values MAX_CONCURRENT_POSITIONS is configured with
MaxPositionsValues == {0, 1, 2}

\* an invocation that has not begun: no locals, no calls made
Idle ==
    [pc |-> "idle", body |-> Absent, event |-> None, notional_pct |-> 0,
     symbol |-> None, gate |-> None,
     lot_step |-> Absent, tick_size |-> Absent, min_notional |-> Absent,
     usd |-> 0, notional |-> Absent, price |-> Absent, qty |-> Absent,
     exits |-> Absent, buy_order |-> Absent, oco_order |-> Absent,
     buy_res |-> None, oco_res |-> None,
     result |-> [kind |-> None], calls |-> <<>>, statuses |-> <<>>]

NoNum == [fn |-> None, out |-> Absent]

Init ==
    /\ MAX_POSITIONS \in MaxPositionsValues
    /\ EXINFO_CACHE = [s \in SYMBOLS |-> Absent]
    /\ bal \in [BaseAssets -> {0}]
    /\ inv = [i \in Invs |-> Idle]
    /\ num = NoNum

(***************************************************************************)
(* Steps of one invocation.  Each operator below gives the locals after    *)
(* the handler ran on to its next await or to its end.                     *)
(***************************************************************************)
\* _req (30-53) issues a call: the handler waits for the answer
Call(r, pc, request) ==
    [r EXCEPT !.pc = pc, !.calls = Append(@, request)]

\* The handler ended: its locals are gone.  What stays is what the caller
\* and the exchange saw of it.
Ended(r, result) ==
    [Idle EXCEPT !.pc = "done", !.result = result, !.calls = r.calls,
                 !.statuses = r.statuses, !.gate = r.gate,
                 !.buy_res = r.buy_res, !.oco_res = r.oco_res]

\* raise HTTPException(status, detail): the invocation ends as a failure
Raise(r, status, detail) ==
    Ended(r, [kind |-> "HTTPException", status_code |-> status,
              detail |-> detail])

\* return value: the invocation ends normally
Return(r, value) == Ended(r, [kind |-> "return"] @@ value)

\* _req lines 39-45: the answer to the last call came with this status
Answered(r, status_code) == [r EXCEPT !.statuses = Append(@, status_code)]

\* a faulty _req that issues the same call again on an error status
ReqFailed_retry(r, resp) ==
    [Answered(r, resp.status_code) EXCEPT !.calls = Append(@, r.calls[Len(r.calls)])]

\* _req lines 48-49 on an answer with status >= 400
ReqFailed(r, resp) ==
    Raise(Answered(r, resp.status_code), resp.status_code, resp.text)

\* _req lines 50-51 on any other answer
ReqOk(r) == Answered(r, 200)

\* a faulty entry that asks for the price where line 143 fetches the account
AfterFilters_price_first(r, s) ==
    LET f == ParseFilters(s)
    IN  IF f.lot_step = Absent \/ f.tick_size = Absent
        THEN Raise(r, 500, "Could not resolve LOT_SIZE or PRICE_FILTER")
        ELSE Call([r EXCEPT !.lot_step = f.lot_step, !.tick_size = f.tick_size,
                            !.min_notional = f.min_notional],
                  "account", "GET /api/v3/ticker/price")

\* a faulty entry that assumes a step of 1 and a tick of 1/100 for a missing
\* filter
AfterFilters_defaults(r, s) ==
    LET f == ParseFilters(s)
    IN  Call([r EXCEPT !.lot_step = IF f.lot_step = Absent THEN <<1, 1>> ELSE f.lot_step,
                       !.tick_size = IF f.tick_size = Absent THEN <<1, 100>>
                                     ELSE f.tick_size,
                       !.min_notional = f.min_notional],
             "account", "GET /api/v3/account")

\* lines 125-143: read the filters of entry s, then fetch the account
AfterFilters(r, s) ==
    LET f == ParseFilters(s)
    IN  IF f.lot_step = Absent \/ f.tick_size = Absent
        THEN Raise(r, 500, "Could not resolve LOT_SIZE or PRICE_FILTER")
        ELSE Call([r EXCEPT !.lot_step = f.lot_step, !.tick_size = f.tick_size,
                            !.min_notional = f.min_notional],
                  "account", "GET /api/v3/account")

\* a faulty lookup that fetches the catalog even for a cached symbol
AfterGate_always_fetch(r, cache) ==
    Call(r, "exchangeInfo", "GET /api/v3/exchangeInfo")

\* get_symbol_filters lines 59-61: a cached entry is used, else it is fetched
AfterGate(r, cache) ==
    IF cache[r.symbol] # Absent THEN AfterFilters(r, cache[r.symbol][1])
    ELSE Call(r, "exchangeInfo", "GET /api/v3/exchangeInfo")

\* entry_for_symbol line 120: the gate is consulted only when MAX_POSITIONS = 1
EntryStart(r, maxpos, cache) ==
    IF maxpos = 1 THEN Call(r, "gate", "GET /api/v3/account")
    ELSE AfterGate(r, cache)

\* a faulty handler that maps the event before it looks at the passphrase
Webhook_event_first(r, maxpos, cache) ==
    LET rr == [r EXCEPT !.body = Absent,
                        !.event = r.body[1].event,
                        !.notional_pct = PctOf(r.body[1].notional_pct)]
    IN  IF rr.event \in DOMAIN map_event /\ map_event[rr.event] \in SYMBOLS
        THEN EntryStart([rr EXCEPT !.symbol = map_event[rr.event]], maxpos, cache)
        ELSE IF r.body[1].passphrase # TV_PASSPHRASE
        THEN Raise(r, 401, "bad passphrase")
        ELSE Return(rr, [ok |-> FALSE, msg |-> "Unknown event"])

\* tradingview lines 182-201, up to the first await of entry_for_symbol;
\* the body is not read again after line 186
Webhook(r, maxpos, cache) ==
    IF r.body[1].passphrase # TV_PASSPHRASE THEN Raise(r, 401, "bad passphrase")
    ELSE LET rr == [r EXCEPT !.body = Absent,
                             !.event = r.body[1].event,
                             !.notional_pct = PctOf(r.body[1].notional_pct)]
         IN  IF rr.event \in DOMAIN map_event
             THEN IF map_event[rr.event] \notin SYMBOLS
                  THEN Return(rr, [ok |-> FALSE, msg |-> "Unhandled symbol"])
                  ELSE EntryStart([rr EXCEPT !.symbol = map_event[rr.event]],
                                  maxpos, cache)
             ELSE Return(rr, [ok |-> FALSE, msg |-> "Unknown event"])

\* POST /tv arrives; line 181 reads its body
Receive(i) ==
    /\ inv[i].pc = "idle"
    /\ \E pp \in Passphrases, ev \in Events, pct \in NotionalPcts :
         inv' = [inv EXCEPT ![i] =
                   [@ EXCEPT !.pc = "tv",
                             !.body = Some([passphrase |-> pp, event |-> ev,
                                            notional_pct |-> pct])]]
    /\ UNCHANGED <<MAX_POSITIONS, EXINFO_CACHE, bal, num>>

\* tradingview (179-201) runs on from the body
tradingview(i) ==
    /\ inv[i].pc = "tv"
    /\ inv' = [inv EXCEPT ![i] = Webhook(@, MAX_POSITIONS, EXINFO_CACHE)]
    /\ UNCHANGED <<MAX_POSITIONS, EXINFO_CACHE, bal, num>>

\* a faulty entry that resolves the symbol's rules before it declines
GateDecision_rules_first(r, total, cache) ==
    IF has_any_position(total)
    THEN Return(IF cache[r.symbol] # Absent THEN r
                ELSE [r EXCEPT !.calls = Append(@, "GET /api/v3/exchangeInfo")],
                [ok |-> FALSE,
                 note |-> "Position already open on one of the managed symbols."])
    ELSE AfterGate(r, cache)

\* lines 120-121 on the answer of has_any_position
GateDecision(r, total, cache) ==
    IF has_any_position(total)
    THEN Return(r, [ok |-> FALSE,
                    note |-> "Position already open on one of the managed symbols."])
    ELSE AfterGate(r, cache)

\* the account fetch of has_any_position (87) is answered; lines 88-94, 120-121.
\* gate keeps what the answer showed: a managed asset above dust, or none.
GateAnswer(i) ==
    /\ inv[i].pc = "gate"
    /\ \/ \E resp \in ErrResponses :
            inv' = [inv EXCEPT ![i] = ReqFailed(@, resp)]
       \/ inv' = [inv EXCEPT ![i] =
                    GateDecision([ReqOk(@) EXCEPT !.gate =
                                    IF \E b \in BaseAssets : bal[b] > DUST
                                    THEN "held" ELSE "clear"],
                                 bal, EXINFO_CACHE)]
    /\ UNCHANGED <<MAX_POSITIONS, EXINFO_CACHE, bal, num>>

\* a faulty lookup that remembers a symbol the catalog does not contain
ExchangeInfoAnswer_remember_missing(i) ==
    /\ inv[i].pc = "exchangeInfo"
    /\ \/ /\ \E resp \in ErrResponses :
               inv' = [inv EXCEPT ![i] = ReqFailed(@, resp)]
          /\ UNCHANGED EXINFO_CACHE
       \/ \E s \in CatalogEntries(inv[i].symbol) :
            IF s = Absent
            THEN /\ inv' = [inv EXCEPT ![i] =
                              Raise(ReqOk(@), 400, "symbol not found in exchangeInfo")]
                 /\ EXINFO_CACHE' = [EXINFO_CACHE EXCEPT ![inv[i].symbol] =
                                       Some([symbol |-> inv[i].symbol, filters |-> <<>>])]
            ELSE /\ EXINFO_CACHE' = [EXINFO_CACHE EXCEPT ![inv[i].symbol] = s]
                 /\ inv' = [inv EXCEPT ![i] = AfterFilters(ReqOk(@), s[1])]
    /\ UNCHANGED <<MAX_POSITIONS, bal, num>>

\* the exchangeInfo fetch of get_symbol_filters (61) is answered; lines 62-66
ExchangeInfoAnswer(i) ==
    /\ inv[i].pc = "exchangeInfo"
    /\ \/ /\ \E resp \in ErrResponses :
               inv' = [inv EXCEPT ![i] = ReqFailed(@, resp)]
          /\ UNCHANGED EXINFO_CACHE
       \/ \E s \in CatalogEntries(inv[i].symbol) :
            IF s = Absent
            THEN /\ inv' = [inv EXCEPT ![i] =
                              Raise(ReqOk(@), 400, "symbol not found in exchangeInfo")]
                 /\ UNCHANGED EXINFO_CACHE
            ELSE /\ EXINFO_CACHE' = [EXINFO_CACHE EXCEPT ![inv[i].symbol] = s]
                 /\ inv' = [inv EXCEPT ![i] = AfterFilters(ReqOk(@), s[1])]
    /\ UNCHANGED <<MAX_POSITIONS, bal, num>>

\* the account fetch of line 143 is answered; lines 145-154
AccountAnswer(i) ==
    /\ inv[i].pc = "account"
    /\ \/ \E resp \in ErrResponses :
            inv' = [inv EXCEPT ![i] = ReqFailed(@, resp)]
       \/ \E free \in Accounts :
            LET usd == AvailableCash(free)
                notional == SizingNotional(inv[i].min_notional, usd,
                                           inv[i].notional_pct)
            IN  inv' = [inv EXCEPT ![i] =
                          Call([ReqOk(@) EXCEPT !.usd = usd, !.notional = notional],
                               "price", "GET /api/v3/ticker/price")]
    /\ UNCHANGED <<MAX_POSITIONS, EXINFO_CACHE, bal, num>>

\* a faulty entry that looks at the holdings once more before the BUY
PriceAnswer_gate_again(i) ==
    /\ inv[i].pc = "price"
    /\ \/ \E resp \in ErrResponses :
            inv' = [inv EXCEPT ![i] = ReqFailed(@, resp)]
       \/ \E price \in Prices :
            LET qty == SizingQty(inv[i].notional, price, inv[i].lot_step)
                r == [ReqOk(inv[i]) EXCEPT !.price = price, !.qty = qty]
            IN  inv' = [inv EXCEPT ![i] =
                          IF qty[1] <= 0
                          THEN Return(r, [ok |-> FALSE,
                                          note |-> "Calculated qty too small."])
                          ELSE IF MAX_POSITIONS = 1 /\ has_any_position(bal)
                          THEN Return(r, [ok |-> FALSE,
                                          note |-> "Position already open on one of the managed symbols."])
                          ELSE Call([r EXCEPT !.buy_order =
                                       Some([symbol |-> r.symbol, side |-> "BUY",
                                             type |-> "MARKET", quantity |-> qty])],
                                    "buy", "POST /api/v3/order")]
    /\ UNCHANGED <<MAX_POSITIONS, EXINFO_CACHE, bal, num>>

\* a faulty entry that declines only a negative quantity
PriceAnswer_zero_passes(i) ==
    /\ inv[i].pc = "price"
    /\ \/ \E resp \in ErrResponses :
            inv' = [inv EXCEPT ![i] = ReqFailed(@, resp)]
       \/ \E price \in Prices :
            LET qty == SizingQty(inv[i].notional, price, inv[i].lot_step)
                r == [ReqOk(inv[i]) EXCEPT !.price = price, !.qty = qty]
            IN  inv' = [inv EXCEPT ![i] =
                          IF qty[1] < 0
                          THEN Return(r, [ok |-> FALSE,
                                          note |-> "Calculated qty too small."])
                          ELSE Call([r EXCEPT !.buy_order =
                                       Some([symbol |-> r.symbol, side |-> "BUY",
                                             type |-> "MARKET", quantity |-> qty])],
                                    "buy", "POST /api/v3/order")]
    /\ UNCHANGED <<MAX_POSITIONS, EXINFO_CACHE, bal, num>>

\* the ticker fetch of line 154 is answered; lines 155-161
PriceAnswer(i) ==
    /\ inv[i].pc = "price"
    /\ \/ \E resp \in ErrResponses :
            inv' = [inv EXCEPT ![i] = ReqFailed(@, resp)]
       \/ \E price \in Prices :
            LET qty == SizingQty(inv[i].notional, price, inv[i].lot_step)
                r == [ReqOk(inv[i]) EXCEPT !.price = price, !.qty = qty]
            IN  inv' = [inv EXCEPT ![i] =
                          IF qty[1] <= 0
                          THEN Return(r, [ok |-> FALSE,
                                          note |-> "Calculated qty too small."])
                          ELSE Call([r EXCEPT !.buy_order =
                                       Some([symbol |-> r.symbol, side |-> "BUY",
                                             type |-> "MARKET", quantity |-> qty])],
                                    "buy", "POST /api/v3/order")]
    /\ UNCHANGED <<MAX_POSITIONS, EXINFO_CACHE, bal, num>>

\* a faulty entry whose OCO sells the unfloored quantity
BuyAnswer_raw_quantity(i) ==
    /\ inv[i].pc = "buy"
    /\ \/ /\ \E resp \in ErrResponses :
               inv' = [inv EXCEPT ![i] = ReqFailed(@, resp)]
          /\ UNCHANGED bal
       \/ /\ \E x \in ExitPrices(inv[i].price, inv[i].tick_size) :
               inv' = [inv EXCEPT ![i] =
                         Call([ReqOk(@) EXCEPT !.buy_res = "filled", !.exits = Some(x),
                                        !.oco_order =
                                          Some([symbol |-> inv[i].symbol, side |-> "SELL",
                                                type |-> "OCO",
                                                quantity |-> FDiv(ToFloat(inv[i].notional),
                                                                  ToFloat(inv[i].price)),
                                                price |-> x.tp_price,
                                                stopPrice |-> x.sl_stop,
                                                stopLimitPrice |-> x.sl_limit,
                                                stopLimitTimeInForce |-> "GTC"])],
                              "oco", "POST /api/v3/order/oco")]
          /\ bal' = [bal EXCEPT ![bases[inv[i].symbol]] = FILLED]
    /\ UNCHANGED <<MAX_POSITIONS, EXINFO_CACHE, num>>

\* the market BUY of line 161 is answered; lines 165-170.  An accepted BUY
\* is filled: the account then holds the base asset.
BuyAnswer(i) ==
    /\ inv[i].pc = "buy"
    /\ \/ /\ \E resp \in ErrResponses :
               inv' = [inv EXCEPT ![i] = ReqFailed(@, resp)]
          /\ UNCHANGED bal
       \/ /\ \E x \in ExitPrices(inv[i].price, inv[i].tick_size) :
               inv' = [inv EXCEPT ![i] =
                         Call([ReqOk(@) EXCEPT !.buy_res = "filled", !.exits = Some(x),
                                        !.oco_order =
                                          Some([symbol |-> inv[i].symbol, side |-> "SELL",
                                                type |-> "OCO", quantity |-> inv[i].qty,
                                                price |-> x.tp_price,
                                                stopPrice |-> x.sl_stop,
                                                stopLimitPrice |-> x.sl_limit,
                                                stopLimitTimeInForce |-> "GTC"])],
                              "oco", "POST /api/v3/order/oco")]
          /\ bal' = [bal EXCEPT ![bases[inv[i].symbol]] = FILLED]
    /\ UNCHANGED <<MAX_POSITIONS, EXINFO_CACHE, num>>

\* a faulty entry that sells the position back when the OCO is refused
OcoAnswer_sell_back(i) ==
    /\ inv[i].pc = "oco"
    /\ \/ /\ \E resp \in ErrResponses :
               inv' = [inv EXCEPT ![i] =
                         ReqFailed([@ EXCEPT !.calls = Append(@, "POST /api/v3/order")],
                                   resp)]
          /\ bal' = [bal EXCEPT ![bases[inv[i].symbol]] = 0]
       \/ /\ inv' = [inv EXCEPT ![i] =
                       Return([ReqOk(@) EXCEPT !.oco_res = "placed"],
                              [ok |-> TRUE, buy |-> "filled", oco |-> "placed",
                               tp |-> inv[i].exits[1].tp_price,
                               sl |-> inv[i].exits[1].sl_stop])]
          /\ UNCHANGED bal
    /\ UNCHANGED <<MAX_POSITIONS, EXINFO_CACHE, num>>

\* the OCO SELL of line 170 is answered; line 172
OcoAnswer(i) ==
    /\ inv[i].pc = "oco"
    /\ \/ \E resp \in ErrResponses :
            inv' = [inv EXCEPT ![i] = ReqFailed(@, resp)]
       \/ inv' = [inv EXCEPT ![i] =
                    Return([ReqOk(@) EXCEPT !.oco_res = "placed"],
                           [ok |-> TRUE, buy |-> "filled", oco |-> "placed",
                            tp |-> inv[i].exits[1].tp_price,
                            sl |-> inv[i].exits[1].sl_stop])]
    /\ UNCHANGED <<MAX_POSITIONS, EXINFO_CACHE, bal, num>>

\* a faulty cache that lives as long as one request only
Finish_forgets_rules(i) ==
    /\ inv[i].pc = "done"
    /\ inv' = [inv EXCEPT ![i] = Idle]
    /\ EXINFO_CACHE' = [s \in SYMBOLS |-> Absent]
    /\ UNCHANGED <<MAX_POSITIONS, bal, num>>

\* the response was sent; the host runtime is free to take another webhook
Finish(i) ==
    /\ inv[i].pc = "done"
    /\ inv' = [inv EXCEPT ![i] = Idle]
    /\ UNCHANGED <<MAX_POSITIONS, EXINFO_CACHE, bal, num>>

\* an exit order fills: the position is sold, down to nothing or to dust
ExitFills ==
    /\ \E b \in BaseAssets, rest \in {0, DUST} :
         /\ bal[b] > DUST
         /\ bal' = [bal EXCEPT ![b] = rest]
    /\ UNCHANGED <<MAX_POSITIONS, EXINFO_CACHE, inv, num>>

Next ==
    \/ \E i \in Invs : Receive(i)
    \/ \E i \in Invs : tradingview(i)
    \/ \E i \in Invs : GateAnswer(i)
    \/ \E i \in Invs : ExchangeInfoAnswer(i)
    \/ \E i \in Invs : AccountAnswer(i)
    \/ \E i \in Invs : PriceAnswer(i)
    \/ \E i \in Invs : BuyAnswer(i)
    \/ \E i \in Invs : OcoAnswer(i)
    \/ \E i \in Invs : Finish(i)
    \/ ExitFills

Spec == Init /\ [][Next]_vars

(***************************************************************************)
(* The pure functions on their own: SpecNum starts from a function with   *)
(* arguments from the sets below, in num, and applies it.                  *)
(***************************************************************************)
\* raw quantities are the multiples of 1/20 up to MaxRaw/20
MaxRaw == 40

RawQtys == {<<k, 20>> : k \in 0 .. MaxRaw}

Steps == {<<1, 10>>, <<1, 100>>, <<1, 4>>}

Ticks == {<<1, 1000>>, <<1, 100>>, <<1, 10>>, <<1, 1>>, <<1, 4>>, <<5, 1>>}

\* entry prices are the multiples of 5/4 up to MaxEntry * 5/4
MaxEntry == 80

EntryPrices == {<<5 * k, 4>> : k \in 1 .. MaxEntry}

MinNotionals == {<<0, 1>>, <<5, 1>>, <<10, 1>>, <<21, 2>>}

CashValues == {1, 100, 200, 220, 600, 1000}

PctValues == {0, 1, 5, 10, 50, 100}

\* entry prices of a few ticks only
LowPrices == {<<1, 100>>, <<1, 1>>, <<2, 1>>, <<3, 1>>, <<4, 1>>}

\* the entries of the catalog, whatever the symbol
FilterEntries ==
    {e[1] : e \in UNION {CatalogEntries(sym) : sym \in SYMBOLS} \ {Absent}}

\* free balances of the stable assets, in dollars
SizingAccounts ==
    {[a \in STABLES |-> IF a = "USD" THEN c ELSE 0] : c \in {0, 5, 200, 1000}}

SizingPrices == {<<100, 1>>, <<2, 1>>}

\* the applications SpecNum starts from: a function and its arguments
NumInputs ==
    {[fn |-> "_step", n |-> n, step |-> step, out |-> Absent] :
        n \in RawQtys, step \in Steps}
    \cup {[fn |-> "exits", price |-> price, tick |-> tick, out |-> Absent] :
        price \in EntryPrices \cup LowPrices, tick \in Ticks}
    \cup {[fn |-> "notional", min_notional |-> mn, usd |-> usd,
           notional_pct |-> pct, out |-> Absent] :
        mn \in MinNotionals, usd \in CashValues, pct \in PctValues}
    \cup {[fn |-> "filters", s |-> s, out |-> Absent] : s \in FilterEntries}
    \cup {[fn |-> "sizing", free |-> free, min_notional |-> mn, notional_pct |-> pct,
           price |-> price, lot_step |-> step, out |-> Absent] :
        free \in SizingAccounts, mn \in MinNotionals, pct \in PctValues,
        price \in SizingPrices, step \in Steps}

InitNum ==
    /\ MAX_POSITIONS = 1
    /\ EXINFO_CACHE = [s \in SYMBOLS |-> Absent]
    /\ bal = [b \in BaseAssets |-> 0]
    /\ inv = [i \in Invs |-> Idle]
    /\ num \in NumInputs

\* _step(n, step) of a raw quantity and a step given as decimals
NumStep ==
    /\ num.fn = "_step" /\ num.out = Absent
    /\ num' = [num EXCEPT !.out = Some(_step(ToFloat(num.n), ToFloat(num.step)))]
    /\ UNCHANGED <<MAX_POSITIONS, EXINFO_CACHE, bal, inv>>

\* the three exit prices of lines 165-168 for an entry price and a tick
NumExits ==
    /\ num.fn = "exits" /\ num.out = Absent
    /\ \E x \in ExitPrices(num.price, num.tick) :
         num' = [num EXCEPT !.out = Some(x)]
    /\ UNCHANGED <<MAX_POSITIONS, EXINFO_CACHE, bal, inv>>

\* the notional of line 153
NumNotional ==
    /\ num.fn = "notional" /\ num.out = Absent
    /\ num' = [num EXCEPT !.out =
                 Some(SizingNotional(num.min_notional, num.usd, num.notional_pct))]
    /\ UNCHANGED <<MAX_POSITIONS, EXINFO_CACHE, bal, inv>>

\* the filter loop of lines 125-137 on a catalog entry
NumFilters ==
    /\ num.fn = "filters" /\ num.out = Absent
    /\ num' = [num EXCEPT !.out = Some(ParseFilters(num.s))]
    /\ UNCHANGED <<MAX_POSITIONS, EXINFO_CACHE, bal, inv>>

\* the sizing of lines 145-156 from the account's free balances to the
\* quantity
NumSizing ==
    /\ num.fn = "sizing" /\ num.out = Absent
    /\ LET usd == AvailableCash(num.free)
           notional == SizingNotional(num.min_notional, usd, num.notional_pct)
       IN  num' = [num EXCEPT !.out =
                     Some([usd |-> usd, notional |-> notional,
                           qty |-> SizingQty(notional, num.price, num.lot_step)])]
    /\ UNCHANGED <<MAX_POSITIONS, EXINFO_CACHE, bal, inv>>

NextNum == NumStep \/ NumExits \/ NumNotional \/ NumFilters \/ NumSizing

SpecNum == InitNum /\ [][NextNum]_vars

(***************************************************************************)
(* Properties of the webhook pipeline (Spec)                               *)
(***************************************************************************)
Range(f) == {f[k] : k \in DOMAIN f}

Last(f) == f[Len(f)]

BUY == "POST /api/v3/order"

OCO == "POST /api/v3/order/oco"

DeclineNote == "Position already open on one of the managed symbols."

IsDecline(result) ==
    /\ result.kind = "return"
    /\ ~result.ok
    /\ "note" \in DOMAIN result
    /\ result.note = DeclineNote

IsFailure(result, status, detail) ==
    /\ result.kind = "HTTPException"
    /\ result.status_code = status
    /\ result.detail = detail

\* C1: with MAX_POSITIONS = 1, an invocation whose gate check saw a managed
\* base asset above dust never issues the market BUY.
C1_NoBuyWhenGateSawHolding ==
    MAX_POSITIONS = 1 =>
        \A i \in Invs : inv[i].gate = "held" => BUY \notin Range(inv[i].calls)

\* C1 witness: a gate check saw a holding and the invocation ran to its
\* end, while the account holds no SOL
C1_Witness ==
    /\ MAX_POSITIONS = 1
    /\ \E i \in Invs : inv[i].pc = "done" /\ inv[i].gate = "held"
    /\ bal["SOL"] = 0

\* C2: the gate is looked at once.  An invocation that saw no holding is not
\* stopped by a holding that appears later: it never ends with the decline
\* of the gate, so two concurrent invocations can both place an entry.
C2_ClearGateIsNeverRevisited ==
    \A i \in Invs : inv[i].gate = "clear" => ~IsDecline(inv[i].result)

\* C2 witness: with MAX_POSITIONS = 1 both invocations saw no holding and
\* both had their market BUY filled
C2_Witness ==
    /\ MAX_POSITIONS = 1
    /\ \A i \in Invs :
         /\ inv[i].gate = "clear"
         /\ BUY \in Range(inv[i].calls)
         /\ inv[i].buy_res = "filled"

\* C3: a webhook with a wrong passphrase ends with a 401 failure, one with a
\* right passphrase and an unknown event ends with ok = FALSE, both without
\* any exchange call; the first exchange call of an invocation is only made
\* for a matching passphrase and a known event.
C3_OnlyAuthenticKnownEventsCall ==
    [][\A i \in Invs :
         /\ (inv[i].pc = "tv" /\ inv'[i] # inv[i]) =>
              LET b == inv[i].body[1]
              IN  /\ b.passphrase # TV_PASSPHRASE =>
                       /\ inv'[i].pc = "done"
                       /\ IsFailure(inv'[i].result, 401, "bad passphrase")
                       /\ inv'[i].calls = <<>>
                  /\ (b.passphrase = TV_PASSPHRASE /\ b.event \notin DOMAIN map_event) =>
                       /\ inv'[i].pc = "done"
                       /\ inv'[i].result.kind = "return"
                       /\ ~inv'[i].result.ok
                       /\ inv'[i].calls = <<>>
         /\ (inv[i].calls = <<>> /\ inv'[i].calls # <<>>) =>
              /\ inv[i].pc = "tv"
              /\ inv[i].body[1].passphrase = TV_PASSPHRASE
              /\ inv[i].body[1].event \in DOMAIN map_event]_vars

\* C3 witness: one webhook was refused with 401, another was answered
\* ok = FALSE for its event, neither made a call
C3_Witness ==
    \E i, j \in Invs :
        /\ inv[i].pc = "done" /\ inv[i].calls = <<>>
        /\ IsFailure(inv[i].result, 401, "bad passphrase")
        /\ inv[j].pc = "done" /\ inv[j].calls = <<>>
        /\ inv[j].result.kind = "return" /\ ~inv[j].result.ok

\* C4: when the gate reports a holding, the invocation ends with a decline
\* (a return with ok = FALSE, not a failure); the gate's account fetch is
\* its only exchange call and the rules cache is unchanged.
C4_DeclineWithoutFurtherCalls ==
    [][\A i \in Invs :
         (inv[i].pc = "gate" /\ inv'[i].gate = "held") =>
            /\ inv'[i].pc = "done"
            /\ IsDecline(inv'[i].result)
            /\ inv'[i].calls = <<"GET /api/v3/account">>
            /\ EXINFO_CACHE' = EXINFO_CACHE]_vars

\* C4 witness: a declined invocation whose symbol rules were never fetched
C4_Witness ==
    \E i \in Invs :
        /\ inv[i].pc = "done" /\ inv[i].gate = "held"
        /\ IsDecline(inv[i].result)
        /\ inv[i].calls = <<"GET /api/v3/account">>
        /\ \E sym \in SYMBOLS : EXINFO_CACHE[sym] = Absent

\* C5: if the OCO call is answered with an error status after the market
\* BUY was filled, the invocation ends as a failure with the status and the
\* body of the answer; it issues no further call and the position stays.
C5_FailedOcoLeavesEntryPlaced ==
    [][\A i \in Invs :
         /\ (inv[i].pc = "oco" /\ inv'[i] # inv[i] /\ inv'[i].oco_res # "placed") =>
              /\ inv'[i].pc = "done"
              /\ Last(inv'[i].statuses) >= 400
              /\ \E resp \in ErrResponses :
                   IsFailure(inv'[i].result, resp.status_code, resp.text)
              /\ inv'[i].result.status_code = Last(inv'[i].statuses)
              /\ inv'[i].calls = inv[i].calls
              /\ inv'[i].buy_res = "filled"
              /\ bal' = bal
         /\ (inv[i].pc = "done" /\ inv'[i] # inv[i]) => inv'[i] = Idle]_vars

\* C5 witness: the BUY was filled, the OCO was refused, the asset is held
C5_Witness ==
    \E i \in Invs :
        /\ inv[i].pc = "done"
        /\ inv[i].buy_res = "filled" /\ inv[i].oco_res = None
        /\ Last(inv[i].calls) = OCO
        /\ inv[i].result.kind = "HTTPException"
        /\ \E b \in BaseAssets : bal[b] = FILLED

\* C6: an exchange call answered with an error status is the last call of
\* its invocation, which has ended as a failure with that status: the call
\* is not retried and no later call is issued.
C6_ErrorStatusEndsInvocation ==
    \A i \in Invs :
        /\ Len(inv[i].statuses) <= Len(inv[i].calls)
        /\ \A k \in 1 .. Len(inv[i].statuses) :
             inv[i].statuses[k] >= 400 =>
                /\ k = Len(inv[i].calls)
                /\ inv[i].pc = "done"
                /\ inv[i].result.kind = "HTTPException"
                /\ inv[i].result.status_code = inv[i].statuses[k]

\* C6 witness: a call failed after earlier calls of the invocation succeeded
C6_Witness ==
    \E i \in Invs :
        /\ Len(inv[i].statuses) >= 3
        /\ Last(inv[i].statuses) >= 400
        /\ Last(inv[i].calls) # OCO

\* C10: a lookup that does not find the symbol in the fetched catalog fails
\* with status 400 and makes no further call; the cache is unchanged, holds
\* only entries of the catalog, and a lookup goes on without a fetch only
\* for a cached symbol.
C10_MissingSymbolFailsAndIsNotCached ==
    [][\A i \in Invs :
         /\ ( /\ inv[i].pc = "exchangeInfo"
              /\ inv'[i].result.kind = "HTTPException"
              /\ inv'[i].result.detail = "symbol not found in exchangeInfo" ) =>
                /\ inv'[i].pc = "done"
                /\ inv'[i].result.status_code = 400
                /\ inv'[i].calls = inv[i].calls
                /\ Last(inv'[i].calls) = "GET /api/v3/exchangeInfo"
                /\ inv'[i].lot_step = Absent /\ inv'[i].tick_size = Absent
                /\ EXINFO_CACHE' = EXINFO_CACHE
         /\ (inv[i].pc \in {"tv", "gate"} /\ inv'[i].pc \in {"account", "exchangeInfo"}) =>
              (inv'[i].pc = "exchangeInfo" <=> EXINFO_CACHE[inv'[i].symbol] = Absent)
         /\ \A sym \in SYMBOLS :
              EXINFO_CACHE'[sym] # Absent => EXINFO_CACHE'[sym] \in CatalogEntries(sym)]_vars

\* C10 witness: a lookup failed for a missing symbol, and the other
\* invocation is fetching the catalog for the same symbol
C10_Witness ==
    \E i, j \in Invs :
        /\ inv[i].pc = "done"
        /\ IsFailure(inv[i].result, 400, "symbol not found in exchangeInfo")
        /\ inv[j].pc = "exchangeInfo" /\ inv[j].symbol = "SOLUSD"
        /\ EXINFO_CACHE["SOLUSD"] = Absent

EXINFO == "GET /api/v3/exchangeInfo"

\* the rules an invocation holds are those of the entry s
RulesAre(r, s) ==
    /\ r.lot_step = ParseFilters(s).lot_step
    /\ r.tick_size = ParseFilters(s).tick_size
    /\ r.min_notional = ParseFilters(s).min_notional

\* a fetch of the catalog for sym is awaited by some invocation
FetchInFlight(sym) ==
    \E j \in Invs : inv[j].pc = "exchangeInfo" /\ inv[j].symbol = sym

ACCOUNT == "GET /api/v3/account"

PRICE == "GET /api/v3/ticker/price"

\* the calls of a whole entry in the order of the code (120, 124, 143, 154,
\* 161, 170)
CodeOrder == <<ACCOUNT, EXINFO, ACCOUNT, PRICE, BUY, OCO>>

\* the calls of a whole entry in the order of the specification's steps:
\* gate, rules, price, balance, entry, exit
SpecOrder == <<ACCOUNT, EXINFO, PRICE, ACCOUNT, BUY, OCO>>

\* the calls of an entry in the given order, without the gate's fetch when
\* the gate is not consulted and without the catalog fetch on a cache hit
Run(order, gated, fetched) ==
    (IF gated THEN <<order[1]>> ELSE <<>>)
      \o (IF fetched THEN <<order[2]>> ELSE <<>>)
      \o SubSeq(order, 3, Len(order))

IsPrefix(a, b) == Len(a) <= Len(b) /\ a = SubSeq(b, 1, Len(a))

\* the calls so far are the beginning of an entry in the given order, and
\* every call but the last was answered without an error
OneAfterAnother(r, order) ==
    /\ \E fetched \in BOOLEAN : IsPrefix(r.calls, Run(order, MAX_POSITIONS = 1, fetched))
    /\ Len(r.statuses) \in {Len(r.calls) - 1, Len(r.calls)}
    /\ \A k \in 1 .. Len(r.statuses) : k < Len(r.calls) => r.statuses[k] < 400

\* C12 as amended: the exchange calls of an invocation happen one after
\* another, each after the previous one succeeded, in the order gate account
\* fetch, rules lookup, balance (account) fetch, market price fetch, market
\* BUY, OCO SELL: the balance fetch precedes the price fetch.
C12_CallsInCodeOrder ==
    \A i \in Invs : OneAfterAnother(inv[i], CodeOrder)

\* C12 as stated: the same with the price fetch before the balance fetch
C12_CallsInSpecOrder ==
    \A i \in Invs : OneAfterAnother(inv[i], SpecOrder)

\* C12 witness: an invocation made all six calls and returned ok
C12_Witness ==
    \E i \in Invs :
        /\ inv[i].pc = "done" /\ inv[i].calls = CodeOrder
        /\ inv[i].result.kind = "return" /\ inv[i].result.ok

HasFilter(s, t) == \E k \in DOMAIN s.filters : s.filters[k].filterType = t

Unresolved == "Could not resolve LOT_SIZE or PRICE_FILTER"

\* C13: an invocation goes on to the balance fetch only with an entry that
\* has a LOT_SIZE and a PRICE_FILTER filter; with an entry that lacks one it
\* ends as a failure with status 500, having made no call beyond the gate's
\* account fetch and the catalog fetch.
C13_NoSizingWithoutStepAndTick ==
    [][\A i \in Invs :
         /\ (inv[i].pc \in {"tv", "gate", "exchangeInfo"} /\ inv'[i].pc = "account") =>
              /\ HasFilter(EXINFO_CACHE'[inv'[i].symbol][1], "LOT_SIZE")
              /\ HasFilter(EXINFO_CACHE'[inv'[i].symbol][1], "PRICE_FILTER")
         /\ ( /\ inv[i].pc \in {"gate", "exchangeInfo"} /\ inv'[i] # inv[i]
              /\ Last(inv'[i].statuses) = 200
              /\ inv'[i].gate # "held"
              /\ inv'[i].pc # "exchangeInfo"
              /\ ~IsFailure(inv'[i].result, 400, "symbol not found in exchangeInfo")
              /\ \/ ~HasFilter(EXINFO_CACHE'[inv[i].symbol][1], "LOT_SIZE")
                 \/ ~HasFilter(EXINFO_CACHE'[inv[i].symbol][1], "PRICE_FILTER") ) =>
                /\ inv'[i].pc = "done"
                /\ IsFailure(inv'[i].result, 500, Unresolved)
                /\ inv'[i].calls = inv[i].calls
         /\ (inv[i].pc # "done" /\ IsFailure(inv'[i].result, 500, Unresolved)) =>
              /\ Range(inv'[i].calls) \subseteq {ACCOUNT, EXINFO}
              /\ IsPrefix(inv'[i].calls, <<ACCOUNT, EXINFO>>)
                   \/ IsPrefix(inv'[i].calls, <<EXINFO>>)]_vars

\* C13 witness: the entry fetched for BONKUSD lacks a filter and the
\* invocation failed right after the catalog fetch
C13_Witness ==
    \E i \in Invs :
        /\ inv[i].pc = "done"
        /\ IsFailure(inv[i].result, 500, Unresolved)
        /\ EXINFO_CACHE["BONKUSD"] # Absent
        /\ inv[i].calls # <<>> /\ Last(inv[i].calls) = EXINFO

TooSmall == "Calculated qty too small."

IsTooSmall(result) ==
    /\ result.kind = "return"
    /\ ~result.ok
    /\ "note" \in DOMAIN result
    /\ result.note = TooSmall

\* C14: when the price is answered and the floored quantity is not above
\* zero, the invocation returns ok = FALSE with the diagnostic, raises no
\* error and issues neither the BUY nor the OCO; the BUY is issued only for
\* a quantity above zero.
C14_ZeroQuantityDeclines ==
    [][\A i \in Invs :
         (inv[i].pc = "price" /\ inv'[i] # inv[i] /\ Last(inv'[i].statuses) = 200) =>
            IF \E p \in Prices :
                 FLe(SizingQty(inv[i].notional, p, inv[i].lot_step), FZero)
            THEN /\ inv'[i].pc = "done"
                 /\ IsTooSmall(inv'[i].result)
                 /\ inv'[i].calls = inv[i].calls
                 /\ BUY \notin Range(inv'[i].calls)
                 /\ OCO \notin Range(inv'[i].calls)
            ELSE /\ inv'[i].pc = "buy"
                 /\ FLt(FZero, inv'[i].qty)
                 /\ inv'[i].buy_order[1].quantity = inv'[i].qty]_vars

\* C14 witness: an invocation declined for a quantity floored to zero, the
\* price fetch being its last call
C14_Witness ==
    \E i \in Invs :
        /\ inv[i].pc = "done"
        /\ IsTooSmall(inv[i].result)
        /\ Last(inv[i].calls) = PRICE
        /\ Last(inv[i].statuses) = 200

\* the invocations at work on sym that have fetched the catalog
Fetchers(sym) ==
    {i \in Invs : inv[i].symbol = sym /\ EXINFO \in Range(inv[i].calls)}

\* C16 as stated: whatever the interleaving, at most one exchangeInfo fetch
\* is made for a symbol.
C16_OneFetchPerSymbol ==
    \A sym \in SYMBOLS : Cardinality(Fetchers(sym)) <= 1

\* C16 as amended: a lookup fetches the catalog only for a symbol that is
\* not cached when it starts, and an invocation fetches at most once; once a
\* symbol is cached and no fetch for it is under way, none is made for it
\* again.  Lookups that start before the first answer each fetch.
C16_FetchOnlyOnMiss ==
    [][/\ \A i \in Invs :
            /\ (EXINFO \notin Range(inv[i].calls) /\ EXINFO \in Range(inv'[i].calls)) =>
                 EXINFO_CACHE[inv'[i].symbol] = Absent
            /\ Cardinality({k \in DOMAIN inv'[i].calls : inv'[i].calls[k] = EXINFO}) <= 1
       /\ \A sym \in SYMBOLS :
            (EXINFO_CACHE[sym] # Absent /\ ~FetchInFlight(sym)) => ~FetchInFlight(sym)']_vars

\* C16 witness: two invocations both found JUPUSD uncached and both await
\* their own fetch of the catalog
C16_Witness ==
    /\ EXINFO_CACHE["JUPUSD"] = Absent
    /\ \A i \in Invs :
         /\ inv[i].pc = "exchangeInfo" /\ inv[i].symbol = "JUPUSD"
         /\ Last(inv[i].calls) = EXINFO

\* how often the call c was issued
Count(calls, c) == Cardinality({k \in DOMAIN calls : calls[k] = c})

\* C18: an invocation issues at most one market BUY and at most one OCO
\* SELL; the OCO is the call right after the BUY, whose answer was a
\* success; the OCO carries the symbol and the quantity of that BUY.
C18_OcoFollowsItsBuy ==
    \A i \in Invs :
        /\ Count(inv[i].calls, BUY) <= 1
        /\ Count(inv[i].calls, OCO) <= 1
        /\ OCO \in Range(inv[i].calls) =>
             /\ inv[i].buy_res = "filled"
             /\ \E k \in 1 .. (Len(inv[i].calls) - 1) :
                  /\ inv[i].calls[k] = BUY
                  /\ inv[i].calls[k + 1] = OCO
                  /\ inv[i].statuses[k] = 200
        /\ inv[i].pc = "oco" =>
             /\ inv[i].oco_order[1].side = "SELL"
             /\ inv[i].buy_order[1].side = "BUY"
             /\ inv[i].oco_order[1].symbol = inv[i].buy_order[1].symbol
             /\ inv[i].oco_order[1].quantity = inv[i].buy_order[1].quantity

\* C18 witness: an OCO for a floored quantity of SOLUSD is awaited after
\* its BUY was filled
C18_Witness ==
    \E i \in Invs :
        /\ inv[i].pc = "oco" /\ inv[i].buy_res = "filled"
        /\ inv[i].oco_order[1].symbol = "SOLUSD"
        /\ inv[i].oco_order[1].quantity = inv[i].qty
        /\ FLt(inv[i].qty, FDiv(ToFloat(inv[i].notional), ToFloat(inv[i].price)))

\* the managed base assets the account holds above dust
Held == {b \in BaseAssets : bal[b] > DUST}

\* C19: whatever MAX_POSITIONS is, with invocations processed one at a
\* time a market BUY is under way only while fewer than MAX_POSITIONS
\* managed assets are held: never with MAX_POSITIONS = 0, and not with two
\* assets held when MAX_POSITIONS = 2.
C19_EntriesBoundedByMaxPositions ==
    \A i \in Invs :
        (inv[i].pc = "buy" /\ \A j \in Invs \ {i} : inv[j].pc = "idle") =>
            Cardinality(Held) < MAX_POSITIONS

(***************************************************************************)
(* Properties of the quantisation and sizing functions (SpecNum)           *)
(***************************************************************************)
\* The quantity is sent as repr(qty): it is a decimal multiple of the step
\* exactly when it is the float of some j * step.
IsStepMultiple(qty, step) ==
    \E j \in 0 .. (FFloor(FDiv(qty, ToFloat(step))) + 1) :
        FromDec(j * step[1], step[2]) = qty

\* the rational p is a whole multiple of the rational tick
OnTick(p, tick) == (p[1] * tick[2]) % (tick[1] * p[2]) = 0

\* C7: for every step > 0 and raw quantity q >= 0, _step(q, step) is a
\* non-negative multiple of the step and is at most q.
C7_StepIsMultipleAtMostQ ==
    (num.fn = "_step" /\ num.out # Absent) =>
        /\ IsStepMultiple(num.out[1], num.step)
        /\ FLe(num.out[1], ToFloat(num.n))

\* C8: the take-profit, stop-trigger and stop-limit prices of an OCO order
\* are each a multiple of the price tick, for every tick > 0.
C8_ExitPricesOnTick ==
    (num.fn = "exits" /\ num.out # Absent) =>
        /\ OnTick(num.out[1].tp_price, num.tick)
        /\ OnTick(num.out[1].sl_stop, num.tick)
        /\ OnTick(num.out[1].sl_limit, num.tick)

\* C9: when usd * pct / 100 is below the minimum notional, the notional is
\* the minimum notional plus 1; otherwise it is the larger of the minimum
\* notional plus 1 and the requested value.
C9_NotionalFloor ==
    (num.fn = "notional" /\ num.out # Absent) =>
        LET requested == <<num.usd * num.notional_pct, 100>>
            floor == <<num.min_notional[1] + num.min_notional[2], num.min_notional[2]>>
            out == num.out[1]
        IN  /\ RLt(requested, num.min_notional) => REq(out, floor)
            /\ ~RLt(requested, num.min_notional) =>
                 /\ RLe(floor, out) /\ RLe(requested, out)
                 /\ REq(out, floor) \/ REq(out, requested)

\* C9 witness: a request below the minimum notional was sized
C9_Witness ==
    /\ num.fn = "notional" /\ num.out # Absent
    /\ RLt(<<0, 1>>, num.min_notional)
    /\ RLt(<<num.usd * num.notional_pct, 100>>, num.min_notional)

\* the entry s gives no minimum-notional value: no filter has a minNotional
\* or a notional field
NoMinNotionalValue(s) ==
    \A k \in DOMAIN s.filters :
        s.filters[k].minNotional = Absent /\ s.filters[k].notional = Absent

\* C15: the minimum notional is 10 whenever the entry gives no value for
\* it, with a MIN_NOTIONAL or NOTIONAL filter that lacks the fields and
\* with no such filter at all.
C15_MinNotionalDefaultsToTen ==
    (num.fn = "filters" /\ num.out # Absent /\ NoMinNotionalValue(num.s)) =>
        num.out[1].min_notional = <<DEFAULT_MIN_NOTIONAL, 1>>

\* the free balances of the stable assets, summed
FreeCash(free) == free["USD"] + free["USDT"] + free["BUSD"] + free["USDC"]

\* the float qty times the rational price is at most cash dollars
CostAtMost(qty, price, cash) ==
    IF qty[2] >= 0 THEN qty[1] * Pow2(qty[2]) * price[1] <= cash * price[2]
    ELSE qty[1] * price[1] <= cash * price[2] * Pow2(-qty[2])

\* C17: the quantity of the market BUY times the price used for sizing is
\* at most the sum of the free balances of USD, USDT, BUSD and USDC.
C17_NeverBuysBeyondCash ==
    (num.fn = "sizing" /\ num.out # Absent /\ FLt(FZero, num.out[1].qty)) =>
        CostAtMost(num.out[1].qty, num.price, FreeCash(num.free))

\* C20: for an entry price that is a positive multiple of the tick, the
\* rounded exit prices satisfy 0 <= stop-limit <= stop-trigger < take-profit.
C20_ExitLegsOrdered ==
    (num.fn = "exits" /\ num.out # Absent /\ OnTick(num.price, num.tick)) =>
        /\ RLe(<<0, 1>>, num.out[1].sl_limit)
        /\ RLe(num.out[1].sl_limit, num.out[1].sl_stop)
        /\ RLt(num.out[1].sl_stop, num.out[1].tp_price)

=============================================================================
